---- MODULE Spec2Model ----
(***************************************************************************)
(* The cgo shim of go-unityscopes (src/shim.cpp): shared_ptr handles that  *)
(* cross the Go/C++ boundary.  A handle (SharedPtrData) is raw storage     *)
(* that either holds a live std::shared_ptr or holds none.                 *)
(*                                                                         *)
(* Every statement of the shim is a function on the memory (Mem).  Under   *)
(* Spec one caller runs whole shim functions, each the composition of its  *)
(* statements.  Under ConcSpec several threads run init_reply_ptr and      *)
(* destroy_reply_ptr one statement at a time, interleaved.                 *)
(***************************************************************************)
EXTENDS Integers, FiniteSets, Sequences, TLC

\* ---------------------------------------------------------------- bounds
NumReplies == 2     \* Reply objects the native runtime has handed out
MaxCats == 1        \* Category objects register_category may create
NumThreads == 2     \* threads calling into the shim under ConcSpec

\* An empty handle: storage that holds no shared_ptr.
Null == 0

Replies == 1..NumReplies
Categories == (NumReplies + 1)..(NumReplies + MaxCats)
Objects == Replies \cup Categories
Threads == 1..NumThreads
\* Handle 1 arrives initialized from the scope adapter, and handle 2 may; the
\* others are zeroed storage of the caller. Under ConcSpec every thread has a
\* zeroed handle of its own.
Handles == 1..(NumThreads + 1)
OwnDest(t) == t + 1

Ids == {"id1"}
Titles == {"Title"}
Icons == {"icon.svg"}
NoText == [id |-> "", title |-> "", icon |-> ""]

VARIABLES
    refcount,   \* use_count of each object's control block
    cleanup,    \* how many times each object's destructor has run
    internal,   \* references to each object held inside the native runtime
    handle,     \* handle storage: the object its shared_ptr owns, or Null
    finished,   \* Reply state: finished() has been called
    registry,   \* Reply state: the categories registered on it
    attrs,      \* Category state: id, title, icon
    ncats,      \* Category objects created so far
    callbacks,  \* calls made into the GoInterface behind pointer_to_iface
    last,       \* history: the latest whole call, its handles, how it ended,
                \* and what became of run_scope's locals runtime and scope
    alias,      \* history: the handle a handle was copied from by init_reply_ptr
    retired,    \* history: the handles that have been destroyed; the caller
                \* never hands one to the shim again
    refcount0,  \* history: the reference counts of the initial state
    pc,         \* per thread: the statement it is about to execute
    src_of,     \* per thread: the src argument of its init_reply_ptr
    local,      \* per thread: the local shared_ptr reply
    entry       \* per thread: history, the reference counts at the call's entry

memvars == <<refcount, cleanup, internal, handle, finished, registry, attrs,
             ncats>>
thrvars == <<pc, src_of, local, entry>>
vars == <<refcount, cleanup, internal, handle, finished, registry, attrs, ncats,
          callbacks, last, alias, retired, refcount0, pc, src_of, local,
          entry>>

\* ------------------------------------------------------------ the memory
Mem ==
    [refcount |-> refcount, cleanup |-> cleanup, internal |-> internal,
     handle |-> handle, finished |-> finished, registry |-> registry,
     attrs |-> attrs, ncats |-> ncats]

Store(m) ==
    /\ refcount' = m.refcount
    /\ cleanup' = m.cleanup
    /\ internal' = m.internal
    /\ handle' = m.handle
    /\ finished' = m.finished
    /\ registry' = m.registry
    /\ attrs' = m.attrs
    /\ ncats' = m.ncats

\* ------------------------------------------------- shared_ptr primitives
\* get_ptr<T>(data): the shared_ptr stored in the handle, returned by value.
get_ptr(m, data) == m.handle[data]

\* Copy construction of a shared_ptr to o: one more owner.
AddRef(m, o) == [m EXCEPT !.refcount[o] = @ + 1]

\* Destruction of a shared_ptr to o: one owner fewer; the last owner runs the
\* object's destructor.
Release(m, o) ==
    [m EXCEPT !.refcount[o] = @ - 1,
              !.cleanup[o] = IF m.refcount[o] = 1 THEN @ + 1 ELSE @]

\* init_ptr<T>(data, v): placement-new of a copy of v into the handle storage.
init_ptr(m, data, v) == AddRef([m EXCEPT !.handle[data] = v], v)

\* destroy_ptr<T>(data): the destructor of the shared_ptr in the handle storage.
destroy_ptr(m, data) == Release([m EXCEPT !.handle[data] = Null], m.handle[data])

\* ------------------------------------------------------ native operations
\* Reply::finished()
Reply_finished(m, r) == [m EXCEPT !.finished[r] = TRUE]

\* The ids already registered on Reply r.
RegisteredIds(m, r) == {m.attrs[c].id : c \in m.registry[r]}

\* The object Reply::register_category creates next.
NewCategory(m) == NumReplies + m.ncats + 1

\* Reply::register_category accepts the id: it is not registered yet (and the
\* model has a Category object left).
CanRegister(m, r, id) == m.ncats < MaxCats /\ id \notin RegisteredIds(m, r)

\* Reply::register_category(id, title, icon) returns a shared_ptr to a new
\* Category, which the Reply records; keep is the number of references to it
\* the native side retains for itself.
Reply_register_category(m, r, id, title, icon, keep) ==
    LET c == NewCategory(m)
    IN  [m EXCEPT !.ncats = @ + 1,
                  !.attrs[c] = [id |-> id, title |-> title, icon |-> icon],
                  !.registry[r] = @ \cup {c},
                  !.refcount[c] = 1 + keep,
                  !.internal[c] = keep]

\* ------------------------------------------------------- history records
\* failed: the native operation the call forwards to raised an exception;
\* thrown: an exception left the shim.
Call(name, a, b, failed, thrown) ==
    [op |-> name, a |-> a, b |-> b, failed |-> failed, thrown |-> thrown,
     runtime |-> "none", scope |-> "none"]

\* A handle the caller may pass as an output: zeroed storage, never used.
Fresh(h) == handle[h] = Null /\ h \notin retired

\* ------------------------------------------------- init_reply_ptr (20-23)
\* Faulty line 21: reply is taken without becoming an owner.
init_reply_ptr_21_unowned(m, src) == m

\* line 21: std::shared_ptr<Reply> reply = get_ptr<Reply>(src);
init_reply_ptr_21(m, src) == AddRef(m, get_ptr(m, src))

\* Faulty line 22: dest receives a shared_ptr to another Reply.
init_reply_ptr_22_other(m, dest, reply) ==
    init_ptr(m, dest, (reply % NumReplies) + 1)

\* Faulty line 22: reply is copied once more on its way into dest.
init_reply_ptr_22_extra(m, dest, reply) == AddRef(init_ptr(m, dest, reply), reply)

\* line 22: init_ptr<Reply>(dest, reply);
init_reply_ptr_22(m, dest, reply) == init_ptr(m, dest, reply)

\* Faulty line 23: the local copy is never released.
init_reply_ptr_23_leak(m, reply) == m

\* line 23: reply goes out of scope.
init_reply_ptr_23(m, reply) == Release(m, reply)

init_reply_ptr(dest, src) ==
    /\ get_ptr(Mem, src) \in Replies
    /\ Fresh(dest)
    /\ LET reply == get_ptr(Mem, src)
           m21 == init_reply_ptr_21(Mem, src)
           m22 == init_reply_ptr_22(m21, dest, reply)
       IN  Store(init_reply_ptr_23(m22, reply))
    /\ last' = Call("init_reply_ptr", src, dest, FALSE, FALSE)
    /\ alias' = [alias EXCEPT ![dest] = src]
    /\ UNCHANGED <<callbacks, retired, refcount0, thrvars>>

\* ---------------------------------------------- destroy_reply_ptr (25-27)
\* line 26: destroy_ptr<Reply>(data);
destroy_reply_ptr(data) ==
    /\ get_ptr(Mem, data) \in Replies
    /\ Store(destroy_ptr(Mem, data))
    /\ last' = Call("destroy_reply_ptr", data, Null, FALSE, FALSE)
    /\ retired' = retired \cup {data}
    /\ UNCHANGED <<callbacks, alias, refcount0, thrvars>>

\* ------------------------------------------------- reply_finished (29-31)
\* Faulty line 30: the temporary is never released.
reply_finished_30_leak(m, reply) ==
    LET r == get_ptr(m, reply)
    IN  Reply_finished(AddRef(m, r), r)

\* line 30: get_ptr<Reply>(reply)->finished(); the temporary shared_ptr lives
\* to the end of the statement.
reply_finished_30(m, reply) ==
    LET r == get_ptr(m, reply)
    IN  Release(Reply_finished(AddRef(m, r), r), r)

reply_finished(reply) ==
    /\ get_ptr(Mem, reply) \in Replies
    /\ Store(reply_finished_30(Mem, reply))
    /\ last' = Call("reply_finished", reply, Null, FALSE, FALSE)
    /\ UNCHANGED <<callbacks, alias, retired, refcount0, thrvars>>

\* ---------------------------------------- reply_register_category (33-36)
\* line 34: auto cat = get_ptr<Reply>(reply)->register_category(id, title, icon);
\* the temporary shared_ptr<Reply> lives to the end of the statement.
reply_register_category_34(m, reply, id, title, icon, keep) ==
    LET r == get_ptr(m, reply)
    IN  Release(Reply_register_category(AddRef(m, r), r, id, title, icon, keep), r)

\* line 34 when register_category throws: the unwinding destroys the temporary.
reply_register_category_34_throw(m, reply) ==
    LET r == get_ptr(m, reply)
    IN  Release(AddRef(m, r), r)

\* line 35: init_ptr<const Category>(category, cat);
reply_register_category_35(m, category, cat) == init_ptr(m, category, cat)

\* Faulty line 36: cat is never released.
reply_register_category_36_leak(m, cat) == m

\* line 36: cat goes out of scope.
reply_register_category_36(m, cat) == Release(m, cat)

reply_register_category(reply, id, title, icon, category) ==
    /\ get_ptr(Mem, reply) \in Replies
    /\ Fresh(category)
    /\ CanRegister(Mem, get_ptr(Mem, reply), id)
    /\ \E keep \in 0..1 :
          LET cat == NewCategory(Mem)
              m34 == reply_register_category_34(Mem, reply, id, title, icon, keep)
              m35 == reply_register_category_35(m34, category, cat)
          IN  Store(reply_register_category_36(m35, cat))
    /\ last' = Call("reply_register_category", reply, category, FALSE, FALSE)
    /\ UNCHANGED <<callbacks, alias, retired, refcount0, thrvars>>

\* Faulty failure path: the shim swallows the exception and goes on to line 35
\* with an empty cat.
reply_register_category_throw_caught(reply, id, title, icon, category) ==
    /\ get_ptr(Mem, reply) \in Replies
    /\ Fresh(category)
    /\ Store(reply_register_category_34_throw(Mem, reply))
    /\ last' = Call("reply_register_category", reply, category, TRUE, FALSE)
    /\ UNCHANGED <<callbacks, alias, retired, refcount0, thrvars>>

\* register_category fails; nothing in the shim catches the exception, and
\* lines 35 and 36 are not reached.
reply_register_category_throw(reply, id, title, icon, category) ==
    /\ get_ptr(Mem, reply) \in Replies
    /\ Fresh(category)
    /\ Store(reply_register_category_34_throw(Mem, reply))
    /\ last' = Call("reply_register_category", reply, category, TRUE, TRUE)
    /\ UNCHANGED <<callbacks, alias, retired, refcount0, thrvars>>

\* ------------------------------------------- destroy_category_ptr (38-40)
\* Faulty destroy_category_ptr: the destructor runs twice.
destroy_category_ptr_twice(data) ==
    /\ get_ptr(Mem, data) \in Categories
    /\ Store(Release(destroy_ptr(Mem, data), get_ptr(Mem, data)))
    /\ last' = Call("destroy_category_ptr", data, Null, FALSE, FALSE)
    /\ retired' = retired \cup {data}
    /\ UNCHANGED <<callbacks, alias, refcount0, thrvars>>

\* line 39: destroy_ptr<const Category>(data);
destroy_category_ptr(data) ==
    /\ get_ptr(Mem, data) \in Categories
    /\ Store(destroy_ptr(Mem, data))
    /\ last' = Call("destroy_category_ptr", data, Null, FALSE, FALSE)
    /\ retired' = retired \cup {data}
    /\ UNCHANGED <<callbacks, alias, refcount0, thrvars>>

\* ------------------------------------------------------ run_scope (13-18)
Locals == [runtime |-> "none", scope |-> "none", callbacks |-> callbacks]

\* line 15: auto runtime = Runtime::create(scope_name, runtime_config);
run_scope_15(f) == [f EXCEPT !.runtime = "live"]

\* line 16: ScopeAdapter scope(*reinterpret_cast<GoInterface*>(pointer_to_iface));
run_scope_16(f) == [f EXCEPT !.scope = "live"]

\* Faulty line 17: the call is not commented out, and the runtime calls into
\* the Go scope.
run_scope_17_run(f) == [f EXCEPT !.callbacks = @ + 1]

\* line 17: //runtime->run_scope(&scope);
run_scope_17(f) == f

\* line 18: scope, then runtime, go out of scope.
run_scope_18(f) == [f EXCEPT !.scope = "destroyed", !.runtime = "destroyed"]

run_scope ==
    /\ LET f == run_scope_18(run_scope_17(run_scope_16(run_scope_15(Locals))))
       IN  /\ callbacks' = f.callbacks
           /\ last' = [Call("run_scope", Null, Null, FALSE, FALSE)
                          EXCEPT !.runtime = f.runtime, !.scope = f.scope]
    /\ UNCHANGED <<memvars, alias, retired, refcount0, thrvars>>

\* Runtime::create fails (a malformed configuration); nothing in the shim
\* catches the exception, and lines 16 to 18 are not reached.
run_scope_throw ==
    /\ callbacks' = Locals.callbacks
    /\ last' = [Call("run_scope", Null, Null, TRUE, TRUE)
                   EXCEPT !.runtime = Locals.runtime, !.scope = Locals.scope]
    /\ UNCHANGED <<memvars, alias, retired, refcount0, thrvars>>

\* ------------------------------------------------------- specifications
InitWith(h2) ==
    /\ \E k \in [Replies -> 0..1] :
          /\ internal = [o \in Objects |-> IF o \in Replies THEN k[o] ELSE 0]
          /\ refcount = [o \in Objects |->
                            IF o \in Replies
                            THEN k[o] + (IF o = 1 THEN 1 ELSE 0)
                                      + (IF o = h2 THEN 1 ELSE 0)
                            ELSE 0]
    /\ handle = [h \in Handles |-> IF h = 1 THEN 1 ELSE IF h = 2 THEN h2 ELSE Null]
    /\ refcount0 = refcount
    /\ cleanup = [o \in Objects |-> 0]
    /\ finished = [r \in Replies |-> FALSE]
    /\ registry = [r \in Replies |-> {}]
    /\ attrs = [c \in Categories |-> NoText]
    /\ ncats = 0
    /\ callbacks = 0
    /\ last = Call("none", Null, Null, FALSE, FALSE)
    /\ alias = [h \in Handles |-> Null]
    /\ retired = {}
    /\ pc = [t \in Threads |-> "start"]
    /\ src_of = [t \in Threads |-> Null]
    /\ local = [t \in Threads |-> Null]
    /\ entry = [t \in Threads |-> refcount]

\* Handle 1 holds Reply 1 and handle 2 holds any Reply or is zeroed.
Init == \E h2 \in Replies \cup {Null} : InitWith(h2)

\* One caller, any legal sequence of whole shim calls.
Next ==
    \/ \E dest \in Handles, src \in Handles : init_reply_ptr(dest, src)
    \/ \E data \in Handles : destroy_reply_ptr(data)
    \/ \E reply \in Handles : reply_finished(reply)
    \/ \E reply \in Handles, id \in Ids, title \in Titles, icon \in Icons,
          category \in Handles :
          reply_register_category(reply, id, title, icon, category)
    \/ \E reply \in Handles, id \in Ids, title \in Titles, icon \in Icons,
          category \in Handles :
          reply_register_category_throw(reply, id, title, icon, category)
    \/ \E data \in Handles : destroy_category_ptr(data)
    \/ run_scope
    \/ run_scope_throw

Spec == Init /\ [][Next]_vars

\* ------------------------------------ init and destroy, thread by thread
\* Thread t copies a Reply handle into its own handle and then destroys the
\* copy.  A thread reads another thread's handle only while that thread is
\* between the return of its init_reply_ptr and its destroy_reply_ptr.
Readable(t, src) ==
    /\ src # OwnDest(t)
    /\ get_ptr(Mem, src) \in Replies
    /\ \A u \in Threads : src = OwnDest(u) => pc[u] = "held"

\* init_reply_ptr(OwnDest(t), src), line 21
T_init_reply_ptr_21(t, src) ==
    /\ pc[t] = "start"
    /\ Readable(t, src)
    /\ Fresh(OwnDest(t))
    /\ Store(init_reply_ptr_21(Mem, src))
    /\ local' = [local EXCEPT ![t] = get_ptr(Mem, src)]
    /\ src_of' = [src_of EXCEPT ![t] = src]
    /\ entry' = [entry EXCEPT ![t] = refcount]
    /\ pc' = [pc EXCEPT ![t] = "line 22"]
    /\ UNCHANGED <<callbacks, last, alias, retired, refcount0>>

\* Faulty line 22: the count is written back from the value read at entry
\* (an increment that is not atomic).
T_init_reply_ptr_22_racy(t) ==
    /\ pc[t] = "line 22"
    /\ Store([init_reply_ptr_22(Mem, OwnDest(t), local[t])
                 EXCEPT !.refcount[local[t]] = entry[t][local[t]] + 2])
    /\ pc' = [pc EXCEPT ![t] = "line 23"]
    /\ UNCHANGED <<callbacks, last, alias, retired, refcount0, src_of, local,
                   entry>>

\* init_reply_ptr(OwnDest(t), src), line 22
T_init_reply_ptr_22(t) ==
    /\ pc[t] = "line 22"
    /\ Store(init_reply_ptr_22(Mem, OwnDest(t), local[t]))
    /\ pc' = [pc EXCEPT ![t] = "line 23"]
    /\ UNCHANGED <<callbacks, last, alias, retired, refcount0, src_of, local,
                   entry>>

\* init_reply_ptr(OwnDest(t), src), line 23
T_init_reply_ptr_23(t) ==
    /\ pc[t] = "line 23"
    /\ Store(init_reply_ptr_23(Mem, local[t]))
    /\ local' = [local EXCEPT ![t] = Null]
    /\ pc' = [pc EXCEPT ![t] = "held"]
    /\ UNCHANGED <<callbacks, last, alias, retired, refcount0, src_of, entry>>

\* destroy_reply_ptr(OwnDest(t)), line 26; no init_reply_ptr in progress is
\* reading the handle.
T_destroy_reply_ptr(t) ==
    /\ pc[t] = "held"
    /\ \A u \in Threads :
          pc[u] \in {"line 22", "line 23"} => src_of[u] # OwnDest(t)
    /\ Store(destroy_ptr(Mem, OwnDest(t)))
    /\ retired' = retired \cup {OwnDest(t)}
    /\ pc' = [pc EXCEPT ![t] = "done"]
    /\ UNCHANGED <<callbacks, last, alias, refcount0, src_of, local, entry>>

ConcInit == InitWith(Null)

ConcNext ==
    \E t \in Threads :
        \/ \E src \in Handles : T_init_reply_ptr_21(t, src)
        \/ T_init_reply_ptr_22(t)
        \/ T_init_reply_ptr_23(t)
        \/ T_destroy_reply_ptr(t)

ConcSpec == ConcInit /\ [][ConcNext]_vars

\* ================================================================ claims
\* The object a handle argument of a call owns (Null for no argument).
Owned(hs, h) == IF h \in Handles THEN hs[h] ELSE Null

\* The handles that own object o.
HandlesOf(o) == {h \in Handles : handle[h] = o}

\* C1: init_reply_ptr(dest, src), with src an initialized Reply handle and dest
\* an uninitialized one, adds exactly one to the reference count of the object
\* behind src, leaves dest initialized and owning that same object, and leaves
\* src as it was.
C1_InitAddsOneReference ==
    [][last'.op = "init_reply_ptr" =>
          LET src == last'.a
              dest == last'.b
              o == handle[src]
          IN  /\ o \in Replies /\ handle[dest] = Null
              /\ refcount'[o] = refcount[o] + 1
              /\ handle'[dest] = o
              /\ handle'[src] = o]_vars

C1_Witness ==
    /\ last.op = "init_reply_ptr"
    /\ handle[last.b] \in Replies
    /\ handle[last.b] = handle[last.a]
    /\ refcount[handle[last.b]] >= 2

\* C2: a destroy call on an initialized handle takes exactly one from the
\* reference count of the object it owns; the destructor of an object runs
\* only in the destroy call that brings its count to zero, so it never runs
\* twice and has not run while the count is positive.
C2_DestroyReleasesOnce ==
    /\ [](\A o \in Objects : cleanup[o] <= 1 /\ (refcount[o] > 0 => cleanup[o] = 0))
    /\ [][/\ last'.op \in {"destroy_reply_ptr", "destroy_category_ptr"} =>
                LET o == handle[last'.a]
                IN  /\ o \in Objects
                    /\ handle'[last'.a] = Null
                    /\ refcount'[o] = refcount[o] - 1
                    /\ cleanup'[o] = IF refcount[o] = 1 THEN 1 ELSE 0
          /\ \A o \in Objects :
                cleanup'[o] # cleanup[o] =>
                    /\ last'.op \in {"destroy_reply_ptr", "destroy_category_ptr"}
                    /\ handle[last'.a] = o
                    /\ refcount[o] = 1 /\ refcount'[o] = 0]_vars

C2_Witness ==
    /\ last.op = "destroy_reply_ptr"
    /\ \E o \in Replies : cleanup[o] = 1 /\ refcount[o] = 0
    /\ \E o \in Replies : internal[o] = 1 /\ HandlesOf(o) = {} /\ cleanup[o] = 0

C4_ConcurrentInitDestroyBalance ==
    /\ \A o \in Objects : cleanup[o] <= 1
    /\ (\A t \in Threads : pc[t] = "done") => refcount = refcount0

C4_Witness ==
    /\ \A t \in Threads : pc[t] = "done" /\ src_of[t] # Null
    /\ \E t \in Threads : src_of[t] # 1
    /\ refcount[1] >= 1

\* What a caller observes of the Reply behind handle h.
Observe(h) ==
    [finished |-> finished[handle[h]],
     categories |-> {attrs[c] : c \in registry[handle[h]]}]

\* C5: once init_reply_ptr(h2, h1) has returned, and for as long as both
\* handles are initialized, the Reply state observed through h2 is the state
\* observed through h1, whatever has been invoked through h1 since.
C5_CopyObservesSameState ==
    \A h2 \in Handles :
        (alias[h2] # Null /\ handle[h2] # Null /\ handle[alias[h2]] # Null) =>
            Observe(h2) = Observe(alias[h2])

C5_Witness ==
    \E h2 \in Handles :
        /\ alias[h2] # Null /\ handle[h2] # Null /\ handle[alias[h2]] # Null
        /\ last.op = "reply_register_category" /\ ~last.failed
        /\ last.a = alias[h2]
        /\ Observe(h2).finished
        /\ \E x \in Observe(h2).categories : x.title = "Title"

\* C6: run_scope builds the runtime and the adapter and destroys both before
\* it returns; it never calls into the Go scope, and it changes no handle and
\* no reference count.
C6_RunScopeRunsNothing ==
    /\ [](callbacks = 0)
    /\ [][last'.op = "run_scope" =>
              /\ callbacks' = callbacks
              /\ handle' = handle
              /\ refcount' = refcount /\ cleanup' = cleanup
              /\ ~last'.failed =>
                    last'.runtime = "destroyed" /\ last'.scope = "destroyed"]_vars

C6_Witness ==
    /\ last.op = "run_scope" /\ ~last.failed
    /\ last.runtime = "destroyed" /\ last.scope = "destroyed"
    /\ \E h \in Handles : handle[h] # Null

\* C7: between shim calls every handle owns an object or none, the reference
\* count of every object is the number of handles that own it plus the
\* references held inside the native runtime, and a call changes the count of
\* no object other than those its handle arguments own.
C7_RefcountCountsHandles ==
    /\ [](/\ \A h \in Handles : handle[h] \in Objects \cup {Null}
          /\ \A o \in Objects :
                refcount[o] = Cardinality(HandlesOf(o)) + internal[o])
    /\ [][\A o \in Objects :
              refcount'[o] # refcount[o] =>
                  o \in {Owned(handle, last'.a), Owned(handle', last'.b)}]_vars

C7_Witness ==
    /\ \E o \in Replies : Cardinality(HandlesOf(o)) = 2 /\ refcount[o] = 3
    /\ \E c \in Categories : HandlesOf(c) # {} /\ refcount[c] = 1 + internal[c]
    /\ last.op = "reply_register_category" /\ ~last.failed

\* C8: reply_finished(h) leaves every reference count as it was: the
\* temporary reference is released before the call returns, h still owns the
\* same Reply, and no destructor runs.
C8_FinishedKeepsRefcount ==
    [][last'.op = "reply_finished" =>
          /\ handle[last'.a] \in Replies
          /\ refcount' = refcount
          /\ cleanup' = cleanup
          /\ handle' = handle
          /\ finished'[handle[last'.a]]]_vars

C8_Witness ==
    /\ last.op = "reply_finished"
    /\ finished[handle[last.a]]
    /\ refcount[handle[last.a]] = 1
    /\ cleanup[handle[last.a]] = 0

\* C9: a failure of the native operation leaves the shim as an exception and
\* leaves the handles as they were: when register_category fails, the output
\* handle stays uninitialized and the Reply's reference count is back at its
\* value before the call; when Runtime::create fails, no adapter is built.
C9_FailurePropagates ==
    [][last'.failed =>
          /\ last'.thrown
          /\ handle' = handle
          /\ refcount' = refcount /\ cleanup' = cleanup
          /\ last'.op = "reply_register_category" =>
                handle'[last'.b] = Null /\ ncats' = ncats /\ registry' = registry
          /\ last'.op = "run_scope" => last'.scope = "none"]_vars

C9_Witness ==
    /\ last.op = "reply_register_category" /\ last.failed /\ last.thrown
    /\ handle[last.b] = Null
    /\ refcount[handle[last.a]] = 1

\* A thread in the middle of init_reply_ptr.
InInit(t) == pc[t] \in {"line 22", "line 23"}

\* C10 as claimed: in the middle of init_reply_ptr the reference count is at
\* least its value at the call's entry plus one and at most that value plus
\* two, and the object has not been destroyed.
C10_Original ==
    \A t \in Threads :
        InInit(t) =>
            /\ refcount[local[t]] >= entry[t][local[t]] + 1
            /\ refcount[local[t]] <= entry[t][local[t]] + 2
            /\ cleanup[local[t]] = 0

\* The references to o that are not held by thread t's call: those of the
\* native runtime, of the handles other than t's dest, and of the other
\* threads' locals.
HeldByOthers(t, o) ==
    internal[o] + Cardinality(HandlesOf(o) \ {OwnDest(t)})
                + Cardinality({u \in Threads \ {t} : local[u] = o})

\* C10 amended: in the middle of init_reply_ptr the call itself holds one
\* reference (after line 21) and then two (after line 22) on top of those all
\* others hold; with src initialized the count is at least 2 and the object
\* has not been destroyed, whatever other threads destroy meanwhile.
C10_InitHoldsOneOrTwo ==
    \A t \in Threads :
        InInit(t) =>
            LET o == local[t]
            IN  /\ o \in Replies /\ handle[src_of[t]] = o
                /\ refcount[o] - HeldByOthers(t, o) =
                       (IF pc[t] = "line 22" THEN 1 ELSE 2)
                /\ refcount[o] >= 2
                /\ cleanup[o] = 0

C10_Witness ==
    \E t \in Threads :
        /\ pc[t] = "line 23"
        /\ \E u \in Threads : pc[u] = "done"
        /\ refcount[local[t]] < entry[t][local[t]] + 1
====
